---- MODULE Spec2Model ----
(***************************************************************************)
(* Model of the sigstore verification client of policy-evaluator           *)
(* (src/callback_handler/sigstore_verification.rs).                        *)
(*                                                                         *)
(* A call of one of the five verify_* operations is a future: it runs      *)
(* synchronously up to its first await, suspends on the cosign client's    *)
(* tokio Mutex and on the registry I/O, and then finishes synchronously.   *)
(* Each such synchronous stretch is one action.  The code that lives in    *)
(* the policy_fetcher, sigstore and tokio crates (Verifier::verify,        *)
(* fetch_sigstore_remote_data, verify_constraints, the constraint          *)
(* verifiers, Mutex) is modelled from sections 4.3, 4.4 and 5 of the       *)
(* specification.                                                          *)
(***************************************************************************)
EXTENDS Integers, Sequences, FiniteSets, TLC

VARIABLES
    host,       \* the policy-execution host: which calls it may make
    registry,   \* image -> manifest (digest, trusted layers) held by the registry
    lock,       \* owner of the Mutex around the cosign client, 0 when free
    waiters,    \* FIFO queue of the calls suspended in Mutex::lock()
    pc,         \* position of every call
    req,        \* arguments of every call
    policy,     \* LatestVerificationConfig built by an identity operation
    fetched,    \* (source_image_digest, trusted_layers) returned by the fetch
    cert,       \* certificate path: cert_verifier and verification_constraints
    fetches,    \* number of fetches of trusted layers started by every call
    result      \* what the call gave back to its caller

vars == <<host, registry, lock, waiters, pc, req, policy, fetched, cert, fetches, result>>

----------------------------------------------------------------------------
(* Bounds *)

\* longest identity list a caller passes
MaxLen == 2
\* number of verification calls in flight on one shared cosign client
NumCalls == 2

----------------------------------------------------------------------------
(* Option<T> *)

None == [some |-> FALSE]
Some(v) == [some |-> TRUE, val |-> v]

(* Strings that are parsed or prefix-matched are sequences of tokens. *)
IsPrefix(p, s) == Len(p) <= Len(s) /\ SubSeq(s, 1, Len(p)) = p

SeqsUpTo(S, n) == UNION {[1..k -> S] : k \in 0..n}

----------------------------------------------------------------------------
(* The inputs callers pass *)

Images == {"registry.example/app:v1", "registry.example/lib:v2"}

PubKeys == {"key1", "key2"}

GithubIssuer == <<"https://", "token.actions.githubusercontent.com">>
OtherIssuer == <<"https://", "accounts.example">>

SubjectApp == <<"https://", "github.com", "/", "acme", "/", "app">>

KeylessInfos ==
    { [issuer |-> GithubIssuer, subject |-> SubjectApp],
      [issuer |-> OtherIssuer, subject |-> SubjectApp] }

\* "github.com" has no scheme, "https://github.com" has an empty path
UrlStrings ==
    { <<"github.com">>,
      <<"https://", "github.com">>,
      <<"https://", "github.com", "/", "acme", "/">> }

KeylessPrefixInfos == { [issuer |-> GithubIssuer, url_prefix |-> u] : u \in UrlStrings }

Owners == {"", "acme"}
Repos == {None, Some("app")}

AnnotationInputs == {None, Some({}), Some({<<"env", "prod">>})}

Certificates == {"certA", "not a PEM certificate"}
Chains == {None, Some(<<"caA">>), Some(<<"caX">>)}

\* one record shape for the arguments of the five operations
Request(op, image, list, owner, repo, certificate, chain, rekor, annotations) ==
    [op |-> op, image |-> image, list |-> list, owner |-> owner, repo |-> repo,
     certificate |-> certificate, certificate_chain |-> chain,
     require_rekor_bundle |-> rekor, annotations |-> annotations]

ListRequests(op, S, n) ==
    { Request(op, i, l, "", None, "", None, FALSE, a) :
        i \in Images, l \in SeqsUpTo(S, n), a \in AnnotationInputs }

GithubRequests ==
    { Request("verify_github_actions", i, <<>>, o, r, "", None, FALSE, a) :
        i \in Images, o \in Owners, r \in Repos, a \in AnnotationInputs }

CertificateRequests ==
    { Request("verify_certificate", i, <<>>, "", None, c, ch, rk, a) :
        i \in Images, c \in Certificates, ch \in Chains, rk \in BOOLEAN,
        a \in AnnotationInputs }

Requests ==
    ListRequests("verify_public_key", PubKeys, MaxLen)
    \cup ListRequests("verify_keyless", KeylessInfos, MaxLen)
    \cup ListRequests("verify_keyless_prefix", KeylessPrefixInfos, MaxLen)
    \cup GithubRequests
    \cup CertificateRequests

----------------------------------------------------------------------------
(* What the registry holds *)

NoAnnotations == {}
EnvProd == {<<"env", "prod">>}

Layer(key, issuer, subject, certificate, bundle, annotations) ==
    [key |-> key, issuer |-> issuer, subject |-> subject,
     certificate |-> certificate, bundle |-> bundle, annotations |-> annotations]

WorkflowApp == SubjectApp \o <<"/", "ci.yml">>

\* signed with a long-lived key
LayerKey1 == Layer("key1", <<>>, <<>>, "", FALSE, EnvProd)
LayerKey2 == Layer("key2", <<>>, <<>>, "", FALSE, NoAnnotations)
\* keyless signatures made with the key of certA, without and with a Rekor bundle
LayerNoBundle == Layer("", GithubIssuer, SubjectApp, "certA", FALSE, EnvProd)
LayerBundle == Layer("", GithubIssuer, WorkflowApp, "certA", TRUE, NoAnnotations)

Layers == {LayerKey1, LayerKey2, LayerNoBundle, LayerBundle}

DigestOf(image) ==
    IF image = "registry.example/app:v1" THEN "sha256:aaaa" ELSE "sha256:bbbb"

Manifest(image, layers) == [digest |-> DigestOf(image), layers |-> layers]

Registries ==
    { [i \in Images |->
          IF i = "registry.example/app:v1" THEN Manifest(i, ls)
                                           ELSE Manifest(i, {LayerKey2, LayerBundle})] :
      ls \in SUBSET Layers }

----------------------------------------------------------------------------
(* Result<T> and the errors of the code *)

Ok(v) == [kind |-> "ok", val |-> v]
Err(e) == [kind |-> "err", error |-> e]
Panic(m) == [kind |-> "panic", message |-> m]
Pending == [kind |-> "none"]

EmptyPubKeys == "Must provide at least one pub key"
EmptyKeyless == "Must provide keyless info"
EmptyOwner == "Must provide owner info"
FetchFailed == "could not fetch the trusted layers"
NoSignatures == "Image verification failed: no signatures to verify"
NotSatisfied == "Image verification failed: missing signatures"
CertificateRejected == "cannot build the certificate verifier"
ConstraintsFailed == "verification failed"

\* the error kinds of section 7 of the specification
InvalidInput == {EmptyPubKeys, EmptyKeyless, EmptyOwner}
FetchFailure == {FetchFailed}
VerificationFailure == {NoSignatures, NotSatisfied, ConstraintsFailed}

----------------------------------------------------------------------------
(* url::Url::parse: a string without a scheme is a relative URL and is     *)
(* rejected; an empty path of an https URL is normalised to "/".           *)

UrlParse(s) ==
    IF Len(s) = 0 \/ s[1] # "https://" THEN Err("relative URL without a base")
    ELSE IF Len(s) = 2 THEN Ok(s \o <<"/">>)
    ELSE Ok(s)

----------------------------------------------------------------------------
(* policy_fetcher::verify::config::Signature and LatestVerificationConfig *)

Equal(s) == [kind |-> "Equal", value |-> s]
UrlPrefix(u) == [kind |-> "UrlPrefix", value |-> u]

PubKey(owner, key, annotations) ==
    [kind |-> "PubKey", owner |-> owner, key |-> key, annotations |-> annotations]

GenericIssuer(issuer, subject, annotations) ==
    [kind |-> "GenericIssuer", issuer |-> issuer, subject |-> subject,
     annotations |-> annotations]

GithubAction(owner, repo, annotations) ==
    [kind |-> "GithubAction", owner |-> owner, repo |-> repo,
     annotations |-> annotations]

\* a policy whose signatures end up in the any_of group
LatestVerificationConfigAnyOf(all_of, any_of) == [all_of |-> any_of, any_of |-> all_of]

LatestVerificationConfig(all_of, any_of) == [all_of |-> all_of, any_of |-> any_of]

----------------------------------------------------------------------------
(* Building the policy: the loops of the identity operations *)

\* a build that forgets the caller's annotations
RECURSIVE PubKeySignaturesWithoutAnnotations(_, _, _, _)
PubKeySignaturesWithoutAnnotations(pub_keys, annotations, i, signatures_all_of) ==
    IF i > Len(pub_keys) THEN signatures_all_of
    ELSE PubKeySignaturesWithoutAnnotations(pub_keys, annotations, i + 1,
            Append(signatures_all_of, PubKey(None, pub_keys[i], None)))

\* verify_public_key: one PubKey signature per key, in order
RECURSIVE PubKeySignatures(_, _, _, _)
PubKeySignatures(pub_keys, annotations, i, signatures_all_of) ==
    IF i > Len(pub_keys) THEN signatures_all_of
    ELSE PubKeySignatures(pub_keys, annotations, i + 1,
            Append(signatures_all_of, PubKey(None, pub_keys[i], annotations)))

\* verify_keyless: one GenericIssuer signature with an Equal subject per element
RECURSIVE KeylessSignatures(_, _, _, _)
KeylessSignatures(keyless, annotations, i, signatures_all_of) ==
    IF i > Len(keyless) THEN signatures_all_of
    ELSE KeylessSignatures(keyless, annotations, i + 1,
            Append(signatures_all_of,
                   GenericIssuer(keyless[i].issuer, Equal(keyless[i].subject),
                                 annotations)))

\* verify_keyless_prefix: Url::parse(..).expect(..) panics on the first
\* element whose url_prefix does not parse
RECURSIVE KeylessPrefixSignatures(_, _, _, _)
KeylessPrefixSignatures(keyless_prefix, annotations, i, signatures_all_of) ==
    IF i > Len(keyless_prefix) THEN Ok(signatures_all_of)
    ELSE LET prefix == UrlParse(keyless_prefix[i].url_prefix) IN
         IF prefix.kind = "err" THEN Panic("Cannot build url prefix")
         ELSE KeylessPrefixSignatures(keyless_prefix, annotations, i + 1,
                 Append(signatures_all_of,
                        GenericIssuer(keyless_prefix[i].issuer, UrlPrefix(prefix.val),
                                      annotations)))

\* verify_github_actions: a single GithubAction signature
GithubActionSignatures(owner, repo, annotations) ==
    Append(<<>>, GithubAction(owner, repo, annotations))

\* Ok(digest) => Ok(VerificationResponse{digest, is_trusted: true}), Err(e) => Err(e)
VerificationResponse(digest, is_trusted) == [digest |-> digest, is_trusted |-> is_trusted]

Respond(r) ==
    IF r.kind = "ok" THEN Ok(VerificationResponse(r.val, TRUE)) ELSE Err(r.error)

----------------------------------------------------------------------------
(* Constraints of the certificate path *)

CertificateVerifier(certificate, require_rekor_bundle, chain) ==
    [kind |-> "Certificate", certificate |-> certificate,
     require_rekor_bundle |-> require_rekor_bundle, chain |-> chain]

AnnotationVerifier(annotations) == [kind |-> "Annotation", annotations |-> annotations]

\* the certificate authorities that issued a certificate
IssuersOf(certificate) == IF certificate = "certA" THEN {"caA"} ELSE {}

\* CertificateVerifier::from_pem: the certificate must be PEM and, when a
\* chain is given, be issued under it
from_pem(certificate, require_rekor_bundle, chain) ==
    IF certificate = "not a PEM certificate" THEN Err(CertificateRejected)
    ELSE IF chain.some /\ \A i \in 1..Len(chain.val) : chain.val[i] \notin IssuersOf(certificate)
         THEN Err(CertificateRejected)
    ELSE Ok(CertificateVerifier(certificate, require_rekor_bundle, chain))

\* a constraint list that leaves the annotations out
VerificationConstraintsCertificateOnly(cert_verifier, annotations) == <<cert_verifier>>

\* lines 245-249: the certificate constraint, then the annotations if given
VerificationConstraints(cert_verifier, annotations) ==
    IF annotations.some
    THEN <<cert_verifier, AnnotationVerifier(annotations.val)>>
    ELSE <<cert_verifier>>

----------------------------------------------------------------------------
(* Matching a constraint against a trusted layer (sections 4.3 and 4.4) *)

AnnotationsMatch(annotations, layer) ==
    annotations.some => annotations.val \subseteq layer.annotations

SanitizedPrefix(u) == IF u[Len(u)] = "/" THEN u ELSE u \o <<"/">>

SubjectMatches(subject, layer) ==
    IF subject.kind = "Equal" THEN layer.subject = subject.value
    ELSE IsPrefix(SanitizedPrefix(subject.value), layer.subject)

GithubSubject(owner, repo) ==
    <<"https://", "github.com", "/", owner, "/">>
        \o (IF repo.some THEN <<repo.val, "/">> ELSE <<>>)

Verify(constraint, layer) ==
    CASE constraint.kind = "PubKey" ->
            /\ layer.key = constraint.key
            /\ AnnotationsMatch(constraint.annotations, layer)
      [] constraint.kind = "GenericIssuer" ->
            /\ layer.issuer = constraint.issuer
            /\ SubjectMatches(constraint.subject, layer)
            /\ AnnotationsMatch(constraint.annotations, layer)
      [] constraint.kind = "GithubAction" ->
            /\ layer.issuer = GithubIssuer
            /\ IsPrefix(GithubSubject(constraint.owner, constraint.repo), layer.subject)
            /\ AnnotationsMatch(constraint.annotations, layer)
      [] constraint.kind = "Certificate" ->
            /\ layer.certificate = constraint.certificate
            /\ constraint.require_rekor_bundle => layer.bundle
      [] constraint.kind = "Annotation" ->
            constraint.annotations \subseteq layer.annotations

\* sigstore::cosign::verify_constraints: every constraint needs a layer
Unsatisfied(trusted_layers, constraints) ==
    { i \in 1..Len(constraints) : ~ \E sl \in trusted_layers : Verify(constraints[i], sl) }

verify_constraints(trusted_layers, constraints) ==
    IF Unsatisfied(trusted_layers, constraints) = {} THEN Ok("unit")
    ELSE Err(ConstraintsFailed)

\* Verifier::verify after its fetch: all_of is AND, any_of is OR
verify_signatures_against_config(verification_config, trusted_layers) ==
    IF ~verification_config.all_of.some /\ ~verification_config.any_of.some
    THEN Err(NoSignatures)
    ELSE IF /\ verification_config.all_of.some
            /\ Unsatisfied(trusted_layers, verification_config.all_of.val) # {}
    THEN Err(NotSatisfied)
    ELSE IF /\ verification_config.any_of.some
            /\ Unsatisfied(trusted_layers, verification_config.any_of.val)
                   = 1..Len(verification_config.any_of.val)
    THEN Err(NotSatisfied)
    ELSE Ok("unit")

----------------------------------------------------------------------------
(* The host and the initial state *)

Calls == 1..NumCalls

\* one Client is borrowed mutably by a call: its calls follow one another
SequentialHost == [callers |-> {1}, requests |-> Requests]

AppImage == "registry.example/app:v1"

\* section 5: calls in flight together on the shared cosign client
ConcurrentRequests ==
    { Request("verify_public_key", AppImage, <<"key1">>, "", None, "", None, FALSE, None),
      Request("verify_public_key", AppImage, <<>>, "", None, "", None, FALSE, None),
      Request("verify_keyless", AppImage, <<[issuer |-> GithubIssuer, subject |-> SubjectApp]>>,
              "", None, "", None, FALSE, None),
      Request("verify_keyless_prefix", AppImage,
              <<[issuer |-> GithubIssuer, url_prefix |-> <<"github.com">>]>>,
              "", None, "", None, FALSE, None),
      Request("verify_github_actions", AppImage, <<>>, "acme", None, "", None, FALSE, None),
      Request("verify_certificate", AppImage, <<>>, "", None, "certA", None, TRUE, None),
      Request("verify_certificate", AppImage, <<>>, "", None, "not a PEM certificate",
              None, FALSE, None) }

ConcurrentHost == [callers |-> Calls, requests |-> ConcurrentRequests]

ConcurrentRegistry ==
    [i \in Images |-> Manifest(i, {LayerKey1, LayerNoBundle})]

NoRequest == Request("", "", <<>>, "", None, "", None, FALSE, None)

Blank ==
    /\ lock = 0
    /\ waiters = <<>>
    /\ pc = [c \in Calls |-> "idle"]
    /\ req = [c \in Calls |-> NoRequest]
    /\ policy = [c \in Calls |-> None]
    /\ fetched = [c \in Calls |-> None]
    /\ cert = [c \in Calls |-> None]
    /\ fetches = [c \in Calls |-> 0]
    /\ result = [c \in Calls |-> Pending]

Init ==
    /\ host = SequentialHost
    /\ registry \in Registries
    /\ Blank

InitConcurrent ==
    /\ host = ConcurrentHost
    /\ registry = ConcurrentRegistry
    /\ Blank

----------------------------------------------------------------------------
(* Steps of a call *)

\* the call returns r to its caller, or unwinds with a panic
Return(c, r) ==
    /\ pc' = [pc EXCEPT ![c] = IF r.kind = "panic" THEN "panicked" ELSE "done"]
    /\ result' = [result EXCEPT ![c] = r]

\* a fetch that uses the cosign client without taking its lock
fetch_without_lock(c) ==
    /\ pc' = [pc EXCEPT ![c] = "fetching"]
    /\ waiters' = waiters

\* fetch_sigstore_remote_data(&cosign_client, image).await: the cosign client
\* is reached through its Mutex only, so the call first queues for the lock
fetch_sigstore_remote_data(c) ==
    /\ pc' = [pc EXCEPT ![c] = "waiting"]
    /\ waiters' = Append(waiters, c)

\* self.verifier.verify(&image, &verification_config).await up to its fetch
VerifierVerify(c, verification_config) ==
    /\ policy' = [policy EXCEPT ![c] = Some(verification_config)]
    /\ fetch_sigstore_remote_data(c)
    /\ UNCHANGED result

\* the host creates the future of one of the five operations
Invoke(c) ==
    /\ c \in host.callers
    /\ pc[c] = "idle"
    /\ \E r \in host.requests : req' = [req EXCEPT ![c] = r]
    /\ pc' = [pc EXCEPT ![c] = "called"]
    /\ UNCHANGED <<host, registry, lock, waiters, policy, fetched, cert, fetches, result>>

verify_public_key(c) ==
    /\ pc[c] = "called"
    /\ req[c].op = "verify_public_key"
    /\ LET pub_keys == req[c].list
           annotations == req[c].annotations
       IN IF Len(pub_keys) = 0
          THEN Return(c, Err(EmptyPubKeys)) /\ UNCHANGED <<policy, waiters>>
          ELSE VerifierVerify(c,
                  LatestVerificationConfig(
                      Some(PubKeySignatures(pub_keys, annotations, 1, <<>>)), None))
    /\ UNCHANGED <<host, registry, lock, req, fetched, cert, fetches>>

verify_keyless(c) ==
    /\ pc[c] = "called"
    /\ req[c].op = "verify_keyless"
    /\ LET keyless == req[c].list
           annotations == req[c].annotations
       IN IF Len(keyless) = 0
          THEN Return(c, Err(EmptyKeyless)) /\ UNCHANGED <<policy, waiters>>
          ELSE VerifierVerify(c,
                  LatestVerificationConfig(
                      Some(KeylessSignatures(keyless, annotations, 1, <<>>)), None))
    /\ UNCHANGED <<host, registry, lock, req, fetched, cert, fetches>>

verify_keyless_prefix(c) ==
    /\ pc[c] = "called"
    /\ req[c].op = "verify_keyless_prefix"
    /\ LET keyless_prefix == req[c].list
           annotations == req[c].annotations
           signatures_all_of == KeylessPrefixSignatures(keyless_prefix, annotations, 1, <<>>)
       IN IF Len(keyless_prefix) = 0
          THEN Return(c, Err(EmptyKeyless)) /\ UNCHANGED <<policy, waiters>>
          ELSE IF signatures_all_of.kind = "panic"
          THEN Return(c, signatures_all_of) /\ UNCHANGED <<policy, waiters>>
          ELSE VerifierVerify(c,
                  LatestVerificationConfig(Some(signatures_all_of.val), None))
    /\ UNCHANGED <<host, registry, lock, req, fetched, cert, fetches>>

\* verify_github_actions without the check of the owner
verify_github_actions_unchecked(c) ==
    /\ pc[c] = "called"
    /\ req[c].op = "verify_github_actions"
    /\ VerifierVerify(c,
          LatestVerificationConfig(
              Some(GithubActionSignatures(req[c].owner, req[c].repo, req[c].annotations)),
              None))
    /\ UNCHANGED <<host, registry, lock, req, fetched, cert, fetches>>

verify_github_actions(c) ==
    /\ pc[c] = "called"
    /\ req[c].op = "verify_github_actions"
    /\ LET owner == req[c].owner
           repo == req[c].repo
           annotations == req[c].annotations
       IN IF owner = ""
          THEN Return(c, Err(EmptyOwner)) /\ UNCHANGED <<policy, waiters>>
          ELSE VerifierVerify(c,
                  LatestVerificationConfig(
                      Some(GithubActionSignatures(owner, repo, annotations)), None))
    /\ UNCHANGED <<host, registry, lock, req, fetched, cert, fetches>>

\* verify_certificate building the certificate verifier before the fetch
verify_certificate_parse_first(c) ==
    /\ pc[c] = "called"
    /\ req[c].op = "verify_certificate"
    /\ IF from_pem(req[c].certificate, req[c].require_rekor_bundle,
                   req[c].certificate_chain).kind = "err"
       THEN Return(c, Err(CertificateRejected)) /\ UNCHANGED waiters
       ELSE fetch_sigstore_remote_data(c) /\ UNCHANGED result
    /\ UNCHANGED <<host, registry, lock, req, policy, fetched, cert, fetches>>

\* verify_certificate up to its first await: the fetch comes first
verify_certificate(c) ==
    /\ pc[c] = "called"
    /\ req[c].op = "verify_certificate"
    /\ fetch_sigstore_remote_data(c)
    /\ UNCHANGED <<host, registry, lock, req, policy, fetched, cert, fetches, result>>


\* tokio Mutex: the lock is granted in FIFO order to the call at the head of
\* the queue; the holder starts its fetch of the trusted layers
LockAcquire(c) ==
    /\ pc[c] = "waiting"
    /\ lock = 0
    /\ waiters # <<>> /\ Head(waiters) = c
    /\ lock' = c
    /\ waiters' = Tail(waiters)
    /\ pc' = [pc EXCEPT ![c] = "fetching"]
    /\ fetches' = [fetches EXCEPT ![c] = @ + 1]
    /\ UNCHANGED <<host, registry, req, policy, fetched, cert, result>>

\* the registry answers: the guard is dropped when the fetch returns
FetchOk(c) ==
    /\ pc[c] = "fetching"
    /\ fetched' = [fetched EXCEPT ![c] = Some(registry[req[c].image])]
    /\ lock' = 0
    /\ pc' = [pc EXCEPT ![c] = "fetched"]
    /\ UNCHANGED <<host, registry, waiters, req, policy, cert, fetches, result>>

\* the registry or the network fails: `?` hands the error to the caller
FetchErr(c) ==
    /\ pc[c] = "fetching"
    /\ lock' = 0
    /\ Return(c, Respond(Err(FetchFailed)))
    /\ UNCHANGED <<host, registry, waiters, req, policy, fetched, cert, fetches>>

\* a Verifier that fetches again when the verification failed
VerifierFinishRetrying(c) ==
    /\ pc[c] = "fetched"
    /\ req[c].op # "verify_certificate"
    /\ LET source_image_digest == fetched[c].val.digest
           trusted_layers == fetched[c].val.layers
           verified == verify_signatures_against_config(policy[c].val, trusted_layers)
       IN IF verified.kind = "ok"
          THEN Return(c, Respond(Ok(source_image_digest))) /\ UNCHANGED waiters
          ELSE fetch_sigstore_remote_data(c) /\ UNCHANGED result
    /\ UNCHANGED <<host, registry, lock, req, policy, fetched, cert, fetches>>

\* identity operations: the policy is evaluated on the fetched layers and the
\* result of Verifier::verify is turned into the response
VerifierFinish(c) ==
    /\ pc[c] = "fetched"
    /\ req[c].op # "verify_certificate"
    /\ LET source_image_digest == fetched[c].val.digest
           trusted_layers == fetched[c].val.layers
           verified == verify_signatures_against_config(policy[c].val, trusted_layers)
       IN Return(c, Respond(IF verified.kind = "ok" THEN Ok(source_image_digest)
                                                    ELSE verified))
    /\ UNCHANGED <<host, registry, lock, waiters, req, policy, fetched, cert, fetches>>

\* verify_certificate, lines 232-249: chain, CertificateVerifier::from_pem(..)?
\* and the list of constraints
CertificateConstraints(c) ==
    /\ pc[c] = "fetched"
    /\ req[c].op = "verify_certificate"
    /\ LET cert_verifier == from_pem(req[c].certificate, req[c].require_rekor_bundle,
                                     req[c].certificate_chain)
       IN IF cert_verifier.kind = "err"
          THEN Return(c, cert_verifier) /\ UNCHANGED cert
          ELSE /\ cert' = [cert EXCEPT ![c] =
                              Some(VerificationConstraints(cert_verifier.val,
                                                           req[c].annotations))]
               /\ pc' = [pc EXCEPT ![c] = "constrained"]
               /\ UNCHANGED result
    /\ UNCHANGED <<host, registry, lock, waiters, req, policy, fetched, fetches>>

\* verify_certificate, lines 251-261: verify_constraints and the response
CertificateFinish(c) ==
    /\ pc[c] = "constrained"
    /\ LET source_image_digest == fetched[c].val.digest
           trusted_layers == fetched[c].val.layers
           verified == verify_constraints(trusted_layers, cert[c].val)
       IN Return(c, Respond(IF verified.kind = "ok" THEN Ok(source_image_digest)
                                                    ELSE Err(ConstraintsFailed)))
    /\ UNCHANGED <<host, registry, lock, waiters, req, policy, fetched, cert, fetches>>

RemoveWaiter(q, c) == SelectSeq(q, LAMBDA w : w # c)

\* a cancellation that leaks the guard of the holder
CancelKeepingLock(c) ==
    /\ pc[c] \in {"called", "waiting", "fetching"}
    /\ pc' = [pc EXCEPT ![c] = "cancelled"]
    /\ waiters' = RemoveWaiter(waiters, c)
    /\ UNCHANGED <<host, registry, lock, req, policy, fetched, cert, fetches, result>>

\* the caller drops the future while it is suspended (or before its first
\* poll): a queued call leaves the queue, a holder's guard is dropped
Cancel(c) ==
    /\ pc[c] \in {"called", "waiting", "fetching"}
    /\ pc' = [pc EXCEPT ![c] = "cancelled"]
    /\ waiters' = RemoveWaiter(waiters, c)
    /\ lock' = IF lock = c THEN 0 ELSE lock
    /\ UNCHANGED <<host, registry, req, policy, fetched, cert, fetches, result>>

Next ==
    \E c \in Calls :
        \/ Invoke(c)
        \/ verify_public_key(c)
        \/ verify_keyless(c)
        \/ verify_keyless_prefix(c)
        \/ verify_github_actions(c)
        \/ verify_certificate(c)
        \/ LockAcquire(c)
        \/ FetchOk(c)
        \/ FetchErr(c)
        \/ VerifierFinish(c)
        \/ CertificateConstraints(c)
        \/ CertificateFinish(c)
        \/ Cancel(c)

Spec == Init /\ [][Next]_vars

SpecConcurrent == InitConcurrent /\ [][Next]_vars

\* the runtime polls a woken call, the registry access layer answers or fails
Fairness ==
    \A c \in Calls :
        /\ WF_vars(LockAcquire(c))
        /\ WF_vars(FetchOk(c) \/ FetchErr(c))

FairSpec == InitConcurrent /\ [][Next]_vars /\ Fairness

----------------------------------------------------------------------------
(* Vocabulary of the properties *)

ListOperations == {"verify_public_key", "verify_keyless", "verify_keyless_prefix"}

Ended(c) == pc[c] \in {"done", "panicked"}

EmptyInput(r) ==
    \/ r.op \in ListOperations /\ Len(r.list) = 0
    \/ r.op = "verify_github_actions" /\ r.owner = ""

MalformedPrefix(r) ==
    /\ r.op = "verify_keyless_prefix"
    /\ \E i \in 1..Len(r.list) : UrlParse(r.list[i].url_prefix).kind = "err"

ValidInput(r) == ~EmptyInput(r) /\ ~MalformedPrefix(r)

\* the identity the i-th element of the input list asks for is carried by the layer
IdentityMatched(r, i, layer) ==
    /\ r.annotations.some => r.annotations.val \subseteq layer.annotations
    /\ CASE r.op = "verify_public_key" -> layer.key = r.list[i]
         [] r.op = "verify_keyless" ->
                layer.issuer = r.list[i].issuer /\ layer.subject = r.list[i].subject
         [] r.op = "verify_keyless_prefix" ->
                /\ layer.issuer = r.list[i].issuer
                /\ IsPrefix(SanitizedPrefix(UrlParse(r.list[i].url_prefix).val),
                            layer.subject)

----------------------------------------------------------------------------
(* C1: a call of verify_public_key, verify_keyless, verify_keyless_prefix  *)
(* with an empty list, or of verify_github_actions with an empty owner,    *)
(* never queues for the client, never fetches and builds no policy; when   *)
(* it has ended it has returned one of the input errors.                   *)
C1_EmptyInputIsRejectedBeforeAnyFetch ==
    \A c \in Calls :
        EmptyInput(req[c]) =>
            /\ fetches[c] = 0
            /\ pc[c] \in {"called", "done", "cancelled"}
            /\ policy[c] = None /\ fetched[c] = None
            /\ pc[c] = "done" =>
                   result[c].kind = "err" /\ result[c].error \in InvalidInput

C1_Witness ==
    \E c \in Calls :
        /\ req[c].op = "verify_github_actions" /\ req[c].owner = ""
        /\ req[c].annotations.some /\ req[c].repo.some
        /\ pc[c] = "done" /\ result[c] = Err(EmptyOwner)

(* C2: every call that has ended gave back either a response with          *)
(* is_trusted = TRUE and the digest its own fetch resolved for its image,  *)
(* or an error; never anything else.                                       *)
C2_EveryCallEndsTrustedOrWithError ==
    \A c \in Calls :
        Ended(c) =>
            \/ result[c].kind = "err"
            \/ /\ result[c].kind = "ok"
               /\ result[c].val.is_trusted = TRUE
               /\ fetched[c].some
               /\ result[c].val.digest = fetched[c].val.digest
               /\ result[c].val.digest = registry[req[c].image].digest

(* C3: a verify_keyless_prefix call whose non-empty list holds a           *)
(* url_prefix that does not parse ends with an error that is not a         *)
(* verification failure, without any fetch.                                *)
C3_MalformedPrefixIsAnInputError ==
    \A c \in Calls :
        (MalformedPrefix(req[c]) /\ Ended(c)) =>
            /\ result[c].kind = "err"
            /\ result[c].error \notin VerificationFailure
            /\ fetches[c] = 0

(* C4: a call is inside the fetch section of the cosign client only while  *)
(* it owns the client's lock, so at most one call is inside at a time.     *)
C4_FetchSectionIsMutuallyExclusive ==
    /\ \A c \in Calls : pc[c] = "fetching" => lock = c
    /\ Cardinality({c \in Calls : pc[c] = "fetching"}) <= 1

C4_Witness ==
    \E c, d \in Calls :
        /\ c # d
        /\ pc[c] = "fetching" /\ lock = c
        /\ pc[d] = "waiting" /\ waiters = <<d>>

(* C5: the lock is owned only by a call that is inside its fetch, never by *)
(* a call that returned, panicked or was cancelled; and a call waiting for *)
(* the lock eventually leaves the queue by acquiring it (or by being       *)
(* cancelled).                                                             *)
LockIsNeverLeftHeld ==
    /\ lock \in Calls \cup {0}
    /\ \A c \in Calls : lock = c => pc[c] = "fetching"

C5_LockIsReleasedAndWaitersAcquire ==
    /\ []LockIsNeverLeftHeld
    /\ \A c \in Calls :
           (pc[c] = "waiting") ~> (pc[c] \in {"fetching", "cancelled"})

\* a call was cancelled while it owned the lock and another call owns it now
C5_Witness ==
    \E c, d \in Calls :
        /\ pc[c] = "cancelled" /\ fetches[c] = 1
        /\ pc[d] = "fetching" /\ lock = d

(* C6: a call fetches at most once; a call that has ended fetched exactly  *)
(* once when its input was valid and never otherwise; a failed fetch and a *)
(* failed verification end the call with an error.                         *)
C6_OneFetchAndVerifyAttempt ==
    \A c \in Calls :
        /\ fetches[c] <= 1
        /\ Ended(c) => fetches[c] = (IF ValidInput(req[c]) THEN 1 ELSE 0)
        /\ (pc[c] = "done" /\ fetches[c] = 1 /\ ~fetched[c].some) =>
               result[c].kind = "err" /\ result[c].error \in FetchFailure
        /\ (pc[c] = "done" /\ fetched[c].some /\ result[c].kind # "ok") =>
               /\ result[c].kind = "err"
               /\ result[c].error \in VerificationFailure \cup {CertificateRejected}

C6_Witness ==
    \E c \in Calls :
        /\ pc[c] = "done" /\ fetches[c] = 1 /\ fetched[c].some
        /\ result[c].kind = "err" /\ result[c].error \in VerificationFailure


(* C7: the policy handed to the Verifier has no any_of group and an all_of *)
(* group with one constraint per input element, the i-th built from the    *)
(* i-th element (PubKey with the key, GenericIssuer with the issuer and    *)
(* the Equal subject or the parsed UrlPrefix), each with the caller's      *)
(* annotations; verify_github_actions builds exactly one GithubAction      *)
(* constraint.  A call that reached the Verifier has such a policy.        *)
ExpectedSignature(r, i) ==
    CASE r.op = "verify_public_key" ->
            [kind |-> "PubKey", owner |-> None, key |-> r.list[i],
             annotations |-> r.annotations]
      [] r.op = "verify_keyless" ->
            [kind |-> "GenericIssuer", issuer |-> r.list[i].issuer,
             subject |-> [kind |-> "Equal", value |-> r.list[i].subject],
             annotations |-> r.annotations]
      [] r.op = "verify_keyless_prefix" ->
            [kind |-> "GenericIssuer", issuer |-> r.list[i].issuer,
             subject |-> [kind |-> "UrlPrefix",
                          value |-> UrlParse(r.list[i].url_prefix).val],
             annotations |-> r.annotations]

C7_PolicyIsOneConstraintPerIdentity ==
    \A c \in Calls :
        /\ (req[c].op # "verify_certificate" /\ fetches[c] > 0) => policy[c].some
        /\ policy[c].some =>
              LET r == req[c]
                  config == policy[c].val
              IN /\ config.any_of = None
                 /\ config.all_of.some
                 /\ Len(config.all_of.val) >= 1
                 /\ r.op \in ListOperations =>
                       /\ Len(config.all_of.val) = Len(r.list)
                       /\ \A i \in 1..Len(r.list) :
                              config.all_of.val[i] = ExpectedSignature(r, i)
                 /\ r.op = "verify_github_actions" =>
                       config.all_of.val =
                           <<[kind |-> "GithubAction", owner |-> r.owner,
                              repo |-> r.repo, annotations |-> r.annotations]>>

C7_Witness ==
    \E c \in Calls :
        /\ req[c].op = "verify_keyless_prefix"
        /\ Len(req[c].list) = 2
        /\ req[c].list[1].url_prefix # req[c].list[2].url_prefix
        /\ req[c].annotations = Some(EnvProd)
        /\ policy[c].some
        /\ pc[c] = "done" /\ fetched[c].some

(* C8: with the fetch done, a call of verify_public_key, verify_keyless or *)
(* verify_keyless_prefix is trusted exactly when every identity of its     *)
(* list is matched by some fetched layer, and ends with an error when one  *)
(* identity is matched by none.                                            *)
C8_IdentitiesAreCombinedAsAnd ==
    \A c \in Calls :
        (req[c].op \in ListOperations /\ pc[c] = "done" /\ fetched[c].some) =>
            LET AllMatched ==
                    \A i \in 1..Len(req[c].list) :
                        \E layer \in fetched[c].val.layers :
                            IdentityMatched(req[c], i, layer)
            IN /\ result[c].kind = "ok" <=> AllMatched
               /\ ~AllMatched => result[c].kind = "err"

\* two keys, the first carried by a layer and the second by none
C8_Witness ==
    \E c \in Calls :
        /\ req[c].op = "verify_public_key"
        /\ Len(req[c].list) = 2
        /\ pc[c] = "done" /\ fetched[c].some
        /\ \E layer \in fetched[c].val.layers : IdentityMatched(req[c], 1, layer)
        /\ ~ \E layer \in fetched[c].val.layers : IdentityMatched(req[c], 2, layer)
        /\ result[c].kind = "err"

(* C9: verify_certificate evaluates the certificate constraint and, just   *)
(* when annotations were given, one annotation constraint; the image is    *)
(* trusted exactly when each of them is matched by a fetched layer; when a *)
(* Rekor bundle is required and no layer signed with the certificate       *)
(* carries one, the call ends with the verification error.                 *)
C9_CertificatePathIsAndOverItsConstraints ==
    \A c \in Calls :
        (req[c].op = "verify_certificate" /\ cert[c].some) =>
            LET r == req[c]
                constraints == cert[c].val
                layers == fetched[c].val.layers
                CertMatched ==
                    \E l \in layers :
                        /\ l.certificate = r.certificate
                        /\ r.require_rekor_bundle => l.bundle
                AnnotationsMatched ==
                    r.annotations.some =>
                        \E l \in layers : r.annotations.val \subseteq l.annotations
            IN /\ Len(constraints) = (IF r.annotations.some THEN 2 ELSE 1)
               /\ constraints[1] = [kind |-> "Certificate", certificate |-> r.certificate,
                                    require_rekor_bundle |-> r.require_rekor_bundle,
                                    chain |-> r.certificate_chain]
               /\ r.annotations.some =>
                      constraints[2] = [kind |-> "Annotation",
                                        annotations |-> r.annotations.val]
               /\ pc[c] = "done" =>
                      /\ result[c].kind = "ok" <=> (CertMatched /\ AnnotationsMatched)
                      /\ ~(CertMatched /\ AnnotationsMatched) =>
                             result[c] = Err(ConstraintsFailed)

\* the certificate signed a layer, but no layer has a bundle
C9_Witness ==
    \E c \in Calls :
        /\ req[c].op = "verify_certificate" /\ req[c].require_rekor_bundle
        /\ req[c].annotations = None
        /\ pc[c] = "done" /\ cert[c].some
        /\ \E l \in fetched[c].val.layers : l.certificate = req[c].certificate
        /\ \A l \in fetched[c].val.layers : ~l.bundle
        /\ result[c] = Err(ConstraintsFailed)

(* C10: in verify_certificate the fetch comes first: a failed fetch ends   *)
(* the call with the fetch error and no constraint built; constraints      *)
(* exist only after a successful fetch; a rejected certificate is reported *)
(* after exactly one fetch; and the constraints are built and evaluated    *)
(* while the call does not own the client lock.                            *)
C10_CertificateIsBuiltAfterTheFetch ==
    \A c \in Calls :
        req[c].op = "verify_certificate" =>
            /\ cert[c].some => fetched[c].some /\ fetches[c] = 1
            /\ (pc[c] = "done" /\ ~fetched[c].some) =>
                   /\ result[c] = Err(FetchFailed)
                   /\ cert[c] = None /\ fetches[c] = 1
            /\ (pc[c] = "done" /\ result[c] = Err(CertificateRejected)) =>
                   fetches[c] = 1 /\ fetched[c].some /\ cert[c] = None
            /\ pc[c] = "done" => fetches[c] = 1
            /\ pc[c] \in {"fetched", "constrained"} => lock # c

\* a call evaluates its constraints while another call owns the lock
C10_Witness ==
    \E c, d \in Calls :
        /\ req[c].op = "verify_certificate"
        /\ pc[c] = "constrained"
        /\ pc[d] = "fetching" /\ lock = d

====
